---- MODULE Spec2Model ----
(***************************************************************************)
(* Model of crop's rope leaf layer (src/rope/rope_chunk.rs): RopeChunk,    *)
(* ChunkSummary, Leaf::balance_slices, ReplaceableLeaf::replace with its   *)
(* ExtraLeaves iterator, and RopeChunkIter.                                *)
(*                                                                         *)
(* Text is a sequence of UTF-8 bytes (integers 0..255).  The size profile  *)
(* is the one selected by cfg(test) / feature "integration_tests".         *)
(* A failed debug_assert! is recorded in a set of labels: a build with     *)
(* debug assertions panics at the first of them, a build without goes on.  *)
(* todo!(), Option::unwrap on None and integer underflow are panics.       *)
(***************************************************************************)
EXTENDS Integers, Sequences, FiniteSets, TLC

VARIABLES
    op,             \* the operation that produced this state
    chunk,          \* replace: `self.text`
    summary,        \* replace: `*summary`
    orig,           \* replace: `self.text` when the call is made
    arg_start,      \* replace: `range.start.0`
    arg_end,        \* replace: `range.end.0`
    arg_slice,      \* replace: `slice`
    outcome,        \* replace: how the call ended
    left,           \* balance_slices: the left leaf  <<text, summary>>
    right,          \* balance_slices: the right leaf, <<>> when absent
    prev_left,      \* balance_slices: the left leaf the last call was given
    prev_right,     \* balance_slices: the right leaf the last call was given
    rounds,         \* balance_slices: calls made on this pair
    balance_asserts,\* balance_slices: labels of failed debug assertions
    text,           \* RopeChunkIter: `self.text`
    yielded,        \* RopeChunkIter: `self.yielded`
    out,            \* RopeChunkIter: the slices yielded so far
    iter_asserts    \* RopeChunkIter: labels of failed debug assertions

vars == <<op, chunk, summary, orig, arg_start, arg_end, arg_slice, outcome,
          left, right, prev_left, prev_right, rounds, balance_asserts, text, yielded, out, iter_asserts>>

replaceVars == <<chunk, summary, orig, arg_start, arg_end, arg_slice, outcome>>

balanceVars == <<left, right, prev_left, prev_right, rounds, balance_asserts>>

iterVars == <<text, yielded, out, iter_asserts>>

----------------------------------------------------------------------------
(* Bounds of the model. *)

\* longest replacement slice handed to replace, in bytes
MaxSliceLen == 3

\* longest source text handed to RopeChunkIter, in bytes
MaxTextLen == 12

\* calls of balance_slices made on one pair of leaves
MaxRounds == 2

----------------------------------------------------------------------------
(* Size profile. *)

ROPE_CHUNK_MAX_BYTES == 4

ROPE_CHUNK_MIN_BYTES == ROPE_CHUNK_MAX_BYTES \div 2

max_bytes == ROPE_CHUNK_MAX_BYTES

min_bytes == ROPE_CHUNK_MIN_BYTES

chunk_max == max_bytes + 3

chunk_min == IF min_bytes > 3 THEN min_bytes - 3 ELSE 1

----------------------------------------------------------------------------
(* UTF-8 text. *)

\* 'a', '\n', U+00E9, U+20AC, U+1F600 as UTF-8
Codepoints == {<<97>>, <<10>>, <<195, 169>>, <<226, 130, 172>>, <<240, 159, 152, 128>>}

\* the same without the line feed
PlainCodepoints == {<<97>>, <<195, 169>>, <<226, 130, 172>>, <<240, 159, 152, 128>>}

RECURSIVE StrsUpTo(_, _)
StrsUpTo(alphabet, n) ==
    IF n = 0 THEN {<<>>}
    ELSE LET prev == StrsUpTo(alphabet, n - 1)
         IN  prev \cup {p[1] \o p[2] :
                          p \in {q \in prev \X alphabet : Len(q[1]) + Len(q[2]) <= n}}

Slice(s, from, to) == SubSeq(s, from + 1, to)

\* str::is_char_boundary
IsCharBoundary(s, index) ==
    IF index = 0 THEN TRUE
    ELSE IF index >= Len(s) THEN index = Len(s)
    ELSE s[index + 1] < 128 \/ s[index + 1] >= 192

Boundaries(s) == {i \in 0..Len(s) : IsCharBoundary(s, i)}

RECURSIVE count_breaks(_)
count_breaks(s) ==
    IF s = <<>> THEN 0
    ELSE (IF Head(s) = 10 THEN 1 ELSE 0) + count_breaks(Tail(s))

summarize(s) == [bytes |-> Len(s), line_breaks |-> count_breaks(s)]

SummaryAdd(a, b) ==
    [bytes |-> a.bytes + b.bytes, line_breaks |-> a.line_breaks + b.line_breaks]

SummarySub(a, b) ==
    [bytes |-> a.bytes - b.bytes, line_breaks |-> a.line_breaks - b.line_breaks]

\* utils::adjust_split_point::<true>: the first char boundary at or after
\* `candidate`
RECURSIVE adjust_split_point_right(_, _)
adjust_split_point_right(s, candidate) ==
    IF IsCharBoundary(s, candidate) \/ candidate > Len(s) THEN candidate
    ELSE adjust_split_point_right(s, candidate + 1)

\* utils::adjust_split_point::<false>: the last char boundary at or before
\* `candidate`
RECURSIVE adjust_split_point_left(_, _)
adjust_split_point_left(s, candidate) ==
    IF IsCharBoundary(s, candidate) \/ candidate > Len(s) THEN candidate
    ELSE adjust_split_point_left(s, candidate - 1)

----------------------------------------------------------------------------
(* extra_leaves::ExtraLeaves.  A step of the iterator is a record          *)
(* [it, item, panic, asserts]: the iterator afterwards, the item returned  *)
(* (<<>> for None, <<leaf>> for Some(leaf)), the panic that ended the call *)
(* ("" when it returned) and the debug assertions that failed in it.       *)

ExtraLeaves_new(first, slice, last) ==
    [total |-> Len(slice) + Len(last),
     yielded |-> 0,
     yielded_first |-> FALSE,
     first |-> first,
     slice |-> slice,
     last |-> last]

ExtraLeaves_next(it) ==
    LET remaining == it.total - it.yielded
        entry == (IF it.yielded_first THEN {} ELSE {"L546"})
                    \cup (IF it.first = <<>> THEN {} ELSE {"L547"})
    IN  IF remaining = 0
        THEN [it |-> it, item |-> <<>>, panic |-> "", asserts |-> entry]
        ELSE IF remaining > max_bytes
        THEN [it |-> it, item |-> <<>>, panic |-> "todo L554", asserts |-> entry]
        ELSE [it |-> it, item |-> <<>>, panic |-> "todo L563",
              asserts |-> entry \cup (IF remaining >= chunk_min THEN {} ELSE {"L556"})]

ExtraLeaves_first(it) ==
    LET entry == IF it.yielded_first THEN {"L523"} ELSE {}
        taken == [it EXCEPT !.yielded_first = TRUE, !.first = <<>>]
    IN  IF it.first # <<>>
        THEN LET first == it.first[1]
                 small == entry \cup (IF Len(first) < min_bytes THEN {} ELSE {"L528"})
             IN  IF it.total <= max_bytes
                 THEN [it |-> taken, item |-> <<first \o it.slice \o it.last>>,
                       panic |-> "", asserts |-> small]
                 ELSE [it |-> taken, item |-> <<>>, panic |-> "todo L537",
                       asserts |-> small]
        ELSE LET r == ExtraLeaves_next(taken)
             IN  IF r.panic = "" /\ r.item = <<>>
                 THEN [r EXCEPT !.panic = "unwrap L540", !.asserts = entry \cup @]
                 ELSE [r EXCEPT !.asserts = entry \cup @]

\* <ExtraLeaves as Iterator>::next
ExtraLeaves_iter_next(it) ==
    IF ~it.yielded_first THEN ExtraLeaves_first(it) ELSE ExtraLeaves_next(it)

\* extras.collect::<Vec<_>>(): call next until it returns None or panics
RECURSIVE collect(_, _, _)
collect(it, leaves, asserts) ==
    LET r == ExtraLeaves_iter_next(it)
    IN  IF r.panic # ""
        THEN [leaves |-> leaves, panic |-> r.panic, asserts |-> asserts \cup r.asserts]
        ELSE IF r.item = <<>>
        THEN [leaves |-> leaves, panic |-> "", asserts |-> asserts \cup r.asserts]
        ELSE collect(r.it, leaves \o r.item, asserts \cup r.asserts)

----------------------------------------------------------------------------
(* <RopeChunk as ReplaceableLeaf<ByteMetric>>::replace.  The result is     *)
(* [self, summary, ret, leaves, panic, asserts]: ret is "None", "Some" or  *)
(* "panic"; leaves are the extra leaves of Some.                           *)

\* replace_fit with the summary of the removed range computed by subtraction
\* as `*summary - up_to_start`, the part after the range forgotten
replace_fit_forgets_from_end(self, sum, start, end, slice) ==
    IF end > start
    THEN LET range_summary ==
                 IF end - start < Len(self) \div 2
                 THEN summarize(Slice(self, start, end))
                 ELSE LET up_to_start == summarize(Slice(self, 0, start))
                      IN  SummarySub(sum, up_to_start)
         IN  [self |-> Slice(self, 0, start) \o slice \o Slice(self, end, Len(self)),
              summary |-> SummaryAdd(SummarySub(sum, range_summary), summarize(slice)),
              ret |-> "None", leaves |-> <<>>, panic |-> "", asserts |-> {}]
    ELSE [self |-> Slice(self, 0, start) \o slice \o Slice(self, start, Len(self)),
          summary |-> SummaryAdd(sum, summarize(slice)),
          ret |-> "None", leaves |-> <<>>, panic |-> "", asserts |-> {}]

\* the `fits in one chunk` half of replace
replace_fit(self, sum, start, end, slice) ==
    IF end > start
    THEN LET range_summary ==
                 IF end - start < Len(self) \div 2
                 THEN summarize(Slice(self, start, end))
                 ELSE LET up_to_start == summarize(Slice(self, 0, start))
                          from_end == summarize(Slice(self, end, Len(self)))
                      IN  SummarySub(sum, SummaryAdd(up_to_start, from_end))
         IN  [self |-> Slice(self, 0, start) \o slice \o Slice(self, end, Len(self)),
              summary |-> SummaryAdd(SummarySub(sum, range_summary), summarize(slice)),
              ret |-> "None", leaves |-> <<>>, panic |-> "", asserts |-> {}]
    ELSE [self |-> Slice(self, 0, start) \o slice \o Slice(self, start, Len(self)),
          summary |-> SummaryAdd(sum, summarize(slice)),
          ret |-> "None", leaves |-> <<>>, panic |-> "", asserts |-> {}]

\* the under-size adjustment of the overflow half: what becomes of `self`,
\* `slice`, `last` and `first`
replace_adjust(self, slice, last) ==
    IF Len(self) < min_bytes
    THEN LET missing == min_bytes - Len(self)
             take_from_slice ==
                 IF missing > Len(slice) THEN Len(slice)
                 ELSE adjust_split_point_right(slice, missing)
             self1 == self \o Slice(slice, 0, take_from_slice)
             slice1 == Slice(slice, take_from_slice, Len(slice))
         IN  IF missing > take_from_slice
             THEN LET missing1 == missing - take_from_slice
                      take_from_last == adjust_split_point_right(last, missing1)
                  IN  IF take_from_last > Len(last)
                      THEN [self |-> self1, slice |-> slice1, last |-> last,
                            first |-> <<>>, panic |-> "index L377"]
                      ELSE [self |-> self1 \o Slice(last, 0, take_from_last),
                            slice |-> slice1,
                            last |-> Slice(last, take_from_last, Len(last)),
                            first |-> <<>>, panic |-> ""]
             ELSE [self |-> self1, slice |-> slice1, last |-> last,
                   first |-> <<>>, panic |-> ""]
    ELSE IF Len(slice) + Len(last) < min_bytes
    THEN LET missing == min_bytes - (Len(slice) + Len(last))
         IN  IF Len(self) < missing
             THEN [self |-> self, slice |-> slice, last |-> last,
                   first |-> <<>>, panic |-> "underflow L405"]
             ELSE LET keep_in_self ==
                          adjust_split_point_right(self, Len(self) - missing)
                  IN  [self |-> Slice(self, 0, keep_in_self),
                       slice |-> slice, last |-> last,
                       first |-> <<Slice(self, keep_in_self, Len(self))>>,
                       panic |-> ""]
    ELSE [self |-> self, slice |-> slice, last |-> last, first |-> <<>>, panic |-> ""]

\* the overflow half of replace
replace_overflow(self, sum, start, end, slice) ==
    LET last0 == Slice(self, end, Len(self))
        self0 == Slice(self, 0, start)
        a350 == IF Len(self0) + Len(slice) + Len(last0) > max_bytes THEN {} ELSE {"L350"}
        adj == replace_adjust(self0, slice, last0)
    IN  IF adj.panic # ""
        THEN [self |-> adj.self, summary |-> sum, ret |-> "panic", leaves |-> <<>>,
              panic |-> adj.panic, asserts |-> a350]
        ELSE LET a411 == IF Len(adj.self) >= min_bytes /\ Len(adj.self) <= max_bytes
                         THEN {} ELSE {"L411"}
                 first_len == IF adj.first = <<>> THEN 0 ELSE Len(adj.first[1])
                 a417 == IF first_len + Len(adj.slice) + Len(adj.last) >= chunk_min
                         THEN {} ELSE {"L417"}
                 extras == collect(ExtraLeaves_new(adj.first, adj.slice, adj.last),
                                   <<>>, a350 \cup a411 \cup a417)
             IN  [self |-> adj.self,
                  summary |-> summarize(adj.self),
                  ret |-> IF extras.panic = "" THEN "Some" ELSE "panic",
                  leaves |-> extras.leaves,
                  panic |-> extras.panic,
                  asserts |-> extras.asserts]

replace(self, sum, start, end, slice) ==
    IF Len(self) - (end - start) + Len(slice) <= max_bytes
    THEN replace_fit(self, sum, start, end, slice)
    ELSE replace_overflow(self, sum, start, end, slice)

----------------------------------------------------------------------------
(* <RopeChunk as Leaf>::balance_slices.  A leaf is [text, summary]; the    *)
(* result is [left, right, asserts] with right = <<>> for None.            *)

is_big_enough(sum) == sum.bytes >= min_bytes

\* utils::balance_left_with_right: move the head of `right` to the end of
\* `left` until `left` has min_bytes, the take point rounded forward
balance_left_with_right(l, l_summary, r, r_summary) ==
    LET missing == min_bytes - Len(l)
        take == adjust_split_point_right(r, missing)
        moved == Slice(r, 0, take)
    IN  <<[text |-> l \o moved,
           summary |-> SummaryAdd(l_summary, summarize(moved))],
          [text |-> Slice(r, take, Len(r)),
           summary |-> SummarySub(r_summary, summarize(moved))]>>

\* utils::balance_right_with_left: move the tail of `left` to the front of
\* `right` until `right` has min_bytes, the take point rounded backward
balance_right_with_left(l, l_summary, r, r_summary) ==
    LET missing == min_bytes - Len(r)
        keep == adjust_split_point_left(l, Len(l) - missing)
        moved == Slice(l, keep, Len(l))
    IN  <<[text |-> Slice(l, 0, keep),
           summary |-> SummarySub(l_summary, summarize(moved))],
          [text |-> moved \o r,
           summary |-> SummaryAdd(summarize(moved), r_summary)]>>

\* balance_slices with the join tried before the `both big enough` test
balance_slices_joins_first(l, l_summary, r, r_summary) ==
    IF Len(l) + Len(r) <= max_bytes
    THEN [left |-> [text |-> l \o r, summary |-> SummaryAdd(l_summary, r_summary)],
          right |-> <<>>,
          asserts |-> {}]
    ELSE IF Len(l) >= min_bytes /\ Len(r) >= min_bytes
    THEN [left |-> [text |-> l, summary |-> l_summary],
          right |-> <<[text |-> r, summary |-> r_summary]>>,
          asserts |-> {}]
    ELSE IF Len(l) < min_bytes
    THEN LET b == balance_left_with_right(l, l_summary, r, r_summary)
         IN  [left |-> b[1], right |-> <<b[2]>>,
              asserts |-> IF Len(r) > min_bytes THEN {} ELSE {"L161"}]
    ELSE LET b == balance_right_with_left(l, l_summary, r, r_summary)
         IN  [left |-> b[1], right |-> <<b[2]>>,
              asserts |-> (IF Len(r) < min_bytes THEN {} ELSE {"L175"})
                            \cup (IF Len(l) > min_bytes THEN {} ELSE {"L176"})]

balance_slices(l, l_summary, r, r_summary) ==
    IF Len(l) >= min_bytes /\ Len(r) >= min_bytes
    THEN [left |-> [text |-> l, summary |-> l_summary],
          right |-> <<[text |-> r, summary |-> r_summary]>>,
          asserts |-> {}]
    ELSE IF Len(l) + Len(r) <= max_bytes
    THEN [left |-> [text |-> l \o r, summary |-> SummaryAdd(l_summary, r_summary)],
          right |-> <<>>,
          asserts |-> {}]
    ELSE IF Len(l) < min_bytes
    THEN LET b == balance_left_with_right(l, l_summary, r, r_summary)
         IN  [left |-> b[1], right |-> <<b[2]>>,
              asserts |-> IF Len(r) > min_bytes THEN {} ELSE {"L161"}]
    ELSE LET b == balance_right_with_left(l, l_summary, r, r_summary)
         IN  [left |-> b[1], right |-> <<b[2]>>,
              asserts |-> (IF Len(r) < min_bytes THEN {} ELSE {"L175"})
                            \cup (IF Len(l) > min_bytes THEN {} ELSE {"L176"})]

----------------------------------------------------------------------------
(* RopeChunkIter.  The result of next is [item, yielded, asserts] with     *)
(* item = <<>> for None and <<slice>> for Some(slice).                     *)

\* RopeChunkIter::next cutting min_bytes where it should cut max_bytes
RopeChunkIter_next_cuts_min(t, y) ==
    LET remaining == Len(t) - y
    IN  IF remaining = 0
        THEN [item |-> <<>>, yielded |-> y, asserts |-> {}]
        ELSE IF remaining > max_bytes
        THEN LET rest == remaining - min_bytes
                 chunk_len0 == IF rest < min_bytes
                               THEN min_bytes - (min_bytes - rest)
                               ELSE min_bytes
                 chunk_len == adjust_split_point_right(Slice(t, y, Len(t)), chunk_len0)
                 piece == Slice(t, y, y + chunk_len)
             IN  [item |-> <<piece>>, yielded |-> y + Len(piece), asserts |-> {}]
        ELSE LET piece == Slice(t, Len(t) - remaining, Len(t))
             IN  [item |-> <<piece>>, yielded |-> y + Len(piece),
                  asserts |-> IF y = 0 \/ remaining >= chunk_min THEN {} ELSE {"L472"}]

\* RopeChunkIter::next without the adjustment of the cut to a char boundary
RopeChunkIter_next_unadjusted(t, y) ==
    LET remaining == Len(t) - y
    IN  IF remaining = 0
        THEN [item |-> <<>>, yielded |-> y, asserts |-> {}]
        ELSE IF remaining > max_bytes
        THEN LET rest == remaining - max_bytes
                 chunk_len == IF rest < min_bytes
                              THEN max_bytes - (min_bytes - rest)
                              ELSE max_bytes
                 piece == Slice(t, y, y + chunk_len)
             IN  [item |-> <<piece>>, yielded |-> y + Len(piece), asserts |-> {}]
        ELSE LET piece == Slice(t, Len(t) - remaining, Len(t))
             IN  [item |-> <<piece>>, yielded |-> y + Len(piece),
                  asserts |-> IF y = 0 \/ remaining >= chunk_min THEN {} ELSE {"L472"}]

RopeChunkIter_next(t, y) ==
    LET remaining == Len(t) - y
    IN  IF remaining = 0
        THEN [item |-> <<>>, yielded |-> y, asserts |-> {}]
        ELSE IF remaining > max_bytes
        THEN LET rest == remaining - max_bytes
                 chunk_len0 == IF rest < min_bytes
                               THEN max_bytes - (min_bytes - rest)
                               ELSE max_bytes
                 chunk_len == adjust_split_point_right(Slice(t, y, Len(t)), chunk_len0)
                 piece == Slice(t, y, y + chunk_len)
             IN  [item |-> <<piece>>, yielded |-> y + Len(piece), asserts |-> {}]
        ELSE LET piece == Slice(t, Len(t) - remaining, Len(t))
             IN  [item |-> <<piece>>, yielded |-> y + Len(piece),
                  asserts |-> IF y = 0 \/ remaining >= chunk_min THEN {} ELSE {"L472"}]

RopeChunkIter_size_hint(t, y) ==
    LET lo == (Len(t) - y) \div max_bytes
    IN  <<lo, lo + 1>>

\* the number of slices next yields from here on
RECURSIVE RemainingSlices(_, _)
RemainingSlices(t, y) ==
    LET r == RopeChunkIter_next(t, y)
    IN  IF r.item = <<>> THEN 0 ELSE 1 + RemainingSlices(t, r.yielded)

----------------------------------------------------------------------------
(* State machines. *)

NoSummary == [bytes |-> 0, line_breaks |-> 0]

NoOutcome == [ret |-> "", leaves |-> <<>>, panic |-> "", asserts |-> {}]

NoLeaf == [text |-> <<>>, summary |-> NoSummary]

ReplaceIdle ==
    /\ chunk = <<>> /\ summary = NoSummary /\ orig = <<>>
    /\ arg_start = 0 /\ arg_end = 0 /\ arg_slice = <<>> /\ outcome = NoOutcome

BalanceIdle ==
    /\ left = NoLeaf /\ right = <<>> /\ prev_left = NoLeaf /\ prev_right = NoLeaf
    /\ rounds = 0 /\ balance_asserts = {}

IterIdle ==
    /\ text = <<>> /\ yielded = 0 /\ out = <<>> /\ iter_asserts = {}

\* the chunks a tree can hold: valid UTF-8 of at most chunk_max bytes
Chunks == StrsUpTo(Codepoints, chunk_max)

Slices == StrsUpTo(Codepoints, MaxSliceLen)

\* 'abcdef'
Abcdef == <<97, 98, 99, 100, 101, 102>>

Texts == StrsUpTo(PlainCodepoints, MaxTextLen) \cup {Abcdef}

\* a call of replace about to be made: a leaf of the tree, the summary the
\* tree keeps next to it, a byte range of the leaf whose ends are char
\* boundaries and a replacement slice
InitReplace ==
    /\ op = "call"
    /\ chunk \in Chunks
    /\ summary = summarize(chunk)
    /\ orig = chunk
    /\ arg_start \in Boundaries(chunk)
    /\ arg_end \in {e \in Boundaries(chunk) : arg_start <= e}
    /\ arg_slice \in Slices
    /\ outcome = NoOutcome
    /\ BalanceIdle /\ IterIdle

Replace ==
    /\ op = "call"
    /\ LET r == replace(chunk, summary, arg_start, arg_end, arg_slice)
       IN  /\ op' = "replace"
           /\ chunk' = r.self
           /\ summary' = r.summary
           /\ outcome' = [ret |-> r.ret, leaves |-> r.leaves,
                          panic |-> r.panic, asserts |-> r.asserts]
    /\ UNCHANGED <<orig, arg_start, arg_end, arg_slice, balanceVars, iterVars>>

NextReplace == Replace

SpecReplace == InitReplace /\ [][NextReplace]_vars

\* two adjacent leaves of the tree with their summaries
InitBalance ==
    /\ op = "init"
    /\ \E l \in Chunks, r \in Chunks :
          /\ left = [text |-> l, summary |-> summarize(l)]
          /\ right = <<[text |-> r, summary |-> summarize(r)]>>
    /\ prev_left = left
    /\ prev_right = right[1]
    /\ rounds = 0
    /\ balance_asserts = {}
    /\ ReplaceIdle /\ IterIdle

Balance ==
    /\ right # <<>>
    /\ rounds < MaxRounds
    /\ LET b == balance_slices(left.text, left.summary,
                               right[1].text, right[1].summary)
       IN  /\ op' = "balance_slices"
           /\ prev_left' = left
           /\ prev_right' = right[1]
           /\ left' = b.left
           /\ right' = b.right
           /\ balance_asserts' = balance_asserts \cup b.asserts
           /\ rounds' = rounds + 1
    /\ UNCHANGED <<replaceVars, iterVars>>

NextBalance == Balance

SpecBalance == InitBalance /\ [][NextBalance]_vars

\* RopeChunkIter::new
InitIter ==
    /\ op = "new"
    /\ text \in Texts
    /\ yielded = 0
    /\ out = <<>>
    /\ iter_asserts = {}
    /\ ReplaceIdle /\ BalanceIdle

\* <RopeChunkIter as Iterator>::next
IterNext ==
    /\ LET r == RopeChunkIter_next(text, yielded)
       IN  /\ op' = IF r.item = <<>> THEN "next_none" ELSE "next_some"
           /\ yielded' = r.yielded
           /\ out' = out \o r.item
           /\ iter_asserts' = iter_asserts \cup r.asserts
    /\ UNCHANGED <<text, replaceVars, balanceVars>>

NextIter == IterNext

SpecIter == InitIter /\ [][NextIter]_vars

----------------------------------------------------------------------------
(* Properties of replace, checked under SpecReplace. *)

Concat3(a, b, c) == a \o b \o c

RECURSIVE Flatten(_)
Flatten(ss) == IF ss = <<>> THEN <<>> ELSE Head(ss) \o Flatten(Tail(ss))

\* original[..start] + slice + original[end..]
Edited == Concat3(Slice(orig, 0, arg_start), arg_slice, Slice(orig, arg_end, Len(orig)))

Fits == Len(orig) - (arg_end - arg_start) + Len(arg_slice) <= max_bytes

InBounds(s) == chunk_min <= Len(s) /\ Len(s) <= chunk_max

\* C1: replace returns, and `self` followed by the extra leaves it returned
\* is original[..start] + slice + original[end..].
C1_RoundTrip ==
    op = "replace" =>
        /\ outcome.ret \in {"None", "Some"}
        /\ chunk \o Flatten(outcome.leaves) = Edited

\* C2: when the edit fits in max_bytes, replace returns None, the chunk is
\* original[..start] + slice + original[end..] and the summary is the exact
\* summary of the new chunk.
C2_FitCase ==
    (op = "replace" /\ Fits) =>
        /\ outcome.ret = "None"
        /\ outcome.leaves = <<>>
        /\ chunk = Edited
        /\ summary = summarize(chunk)

\* a fitting edit whose removed range was summarised by subtraction, with a
\* line feed removed and a line feed left in the chunk
C2_Witness ==
    /\ op = "replace" /\ Fits /\ outcome.ret = "None"
    /\ arg_end > arg_start
    /\ arg_end - arg_start >= Len(orig) \div 2
    /\ count_breaks(Slice(orig, arg_start, arg_end)) > 0
    /\ count_breaks(Slice(orig, arg_end, Len(orig))) > 0
    /\ summary.line_breaks > 0

\* C3: when the edit does not fit and replace returns, `self` and every
\* extra leaf have between chunk_min and chunk_max bytes and the summary is
\* that of `self`.
C3_OverflowBounds ==
    (op = "replace" /\ ~Fits /\ outcome.ret = "Some") =>
        /\ InBounds(chunk)
        /\ \A i \in 1..Len(outcome.leaves) : InBounds(outcome.leaves[i])
        /\ summary = summarize(chunk)

\* C10: on the overflow path the under-size adjustment ends without a panic
\* and the assertion min_bytes <= self.len() <= max_bytes holds after it.
C10_AssertAfterAdjust ==
    (op = "replace" /\ ~Fits) =>
        /\ outcome.panic \notin {"index L377", "underflow L405"}
        /\ "L411" \notin outcome.asserts

----------------------------------------------------------------------------
(* Properties of balance_slices, checked under SpecBalance. *)

\* C4: every chunk balance_slices returns has at most chunk_max bytes, and
\* when it returns two chunks each has at least chunk_min bytes.
C4_BalanceBounds ==
    op = "balance_slices" =>
        /\ Len(left.text) <= chunk_max
        /\ right # <<>> =>
              /\ Len(right[1].text) <= chunk_max
              /\ Len(left.text) >= chunk_min
              /\ Len(right[1].text) >= chunk_min

\* C5: when balance_slices returns two chunks both are big enough, so the
\* next call on the pair returns it unchanged.
C5_OnePass ==
    (op = "balance_slices" /\ right # <<>>) =>
        /\ is_big_enough(left.summary)
        /\ is_big_enough(right[1].summary)
        /\ (rounds > 1 => left = prev_left /\ right = <<prev_right>>)

\* C6: when both slices have at least min_bytes, balance_slices returns the
\* left and the right slice with the summaries passed in, unchanged.
C6_BalancedNoOp ==
    (/\ op = "balance_slices"
     /\ Len(prev_left.text) >= min_bytes
     /\ Len(prev_right.text) >= min_bytes) =>
        /\ left = prev_left
        /\ right = <<prev_right>>

\* two balanced slices small enough to fit in one chunk together went
\* through balance_slices
C6_Witness ==
    /\ op = "balance_slices"
    /\ Len(prev_left.text) >= min_bytes
    /\ Len(prev_right.text) >= min_bytes
    /\ Len(prev_left.text) + Len(prev_right.text) <= max_bytes
    /\ prev_right.summary.line_breaks > 0
    /\ right # <<>>

----------------------------------------------------------------------------
(* Properties of RopeChunkIter, checked under SpecIter. *)

\* 'ab', 'cd', 'ef'
AbCdEf == <<<<97, 98>>, <<99, 100>>, <<101, 102>>>>

\* 'abcd', 'ef'
AbcdEf == <<<<97, 98, 99, 100>>, <<101, 102>>>>

\* C7 as stated: iterating over 'abcdef' to exhaustion yields 'ab', 'cd', 'ef'.
C7_AbCdEf ==
    (text = Abcdef /\ op = "next_none") => out = AbCdEf

\* C7 as amended: iterating over 'abcdef' to exhaustion yields 'abcd', 'ef'.
C7_AbcdEf ==
    (text = Abcdef /\ op = "next_none") => out = AbcdEf

\* the iteration over 'abcdef' has returned None
C7_Witness ==
    text = Abcdef /\ op = "next_none" /\ yielded = 6

\* the byte offset in `text` at which the i-th yielded slice ends
RECURSIVE EndOf(_, _)
EndOf(ss, i) == IF i = 0 THEN 0 ELSE EndOf(ss, i - 1) + Len(ss[i])

\* C8: every slice yielded is non-empty, lies between two char boundaries of
\* the text, has at most chunk_max bytes and, unless it is the last one, at
\* least chunk_min bytes; the debug assertion of next never fails.
C8_IterBounds ==
    /\ iter_asserts = {}
    /\ yielded = EndOf(out, Len(out))
    /\ \A i \in 1..Len(out) :
          /\ out[i] # <<>>
          /\ out[i] = Slice(text, EndOf(out, i - 1), EndOf(out, i))
          /\ IsCharBoundary(text, EndOf(out, i - 1))
          /\ IsCharBoundary(text, EndOf(out, i))
          /\ EndOf(out, i) <= Len(text)
          /\ Len(out[i]) <= chunk_max
          /\ (i < Len(out) \/ yielded < Len(text)) => Len(out[i]) >= chunk_min

\* an exhausted iteration whose first cut was moved forward to chunk_max and
\* that went on to yield more
C8_Witness ==
    /\ op = "next_none"
    /\ Len(out) >= 3
    /\ Len(out[1]) = chunk_max

\* C9: at every point of an iteration the number of slices still to come is
\* between the two bounds of size_hint.
C9_SizeHint ==
    LET hint == RopeChunkIter_size_hint(text, yielded)
        n == RemainingSlices(text, yielded)
    IN  hint[1] <= n /\ n <= hint[2]

====
